---- MODULE Spec2Model ----
(***************************************************************************)
(* Model of api/generate.py: the POST handler that searches for image     *)
(* URLs, downloads each image, fits it on an A4 page and answers with a   *)
(* multi-page PDF or a JSON error.                                        *)
(*                                                                        *)
(* Lengths are pixels.  A margin ratio is carried in thousandths (30 is   *)
(* the ratio 0.03).  Python floats are IEEE doubles: the products the     *)
(* code truncates with int() are computed here with their rounding.       *)
(***************************************************************************)
EXTENDS Integers, Sequences, FiniteSets, TLC

\* ---------------------------------------------------------------- bounds
MaxDim == 4
MaxUrls == 3

\* ------------------------------------------------------- program constants
A4_W_PX == 2481
A4_H_PX == 3507

Absent == "<absent>"
BadValue == "<bad>"
\* a JSON number field: missing, not convertible, or the integer n
Missing == [kind |-> "absent", n |-> 0]
Unconvertible == [kind |-> "bad", n |-> 0]
Number(n) == [kind |-> "int", n |-> n]
NoPage == [ok |-> FALSE, page_w |-> 0, page_h |-> 0, target_w |-> 0, target_h |-> 0,
           x |-> 0, y |-> 0]

Min2(a, b) == IF a <= b THEN a ELSE b
Max2(a, b) == IF a >= b THEN a ELSE b

RECURSIVE Pow2(_)
Pow2(n) == IF n <= 0 THEN 1 ELSE 2 * Pow2(n - 1)

\* ------------------------------------------------ double arithmetic helpers
\* p with 2^p <= a/b < 2^(p+1), for a, b >= 1: the exponent of the double a/b.
RECURSIVE FloorLog2Up(_, _, _)
FloorLog2Up(a, b, p) == IF a >= b * Pow2(p + 1) THEN FloorLog2Up(a, b, p + 1) ELSE p

RECURSIVE FloorLog2Down(_, _, _)
FloorLog2Down(a, b, p) == IF a * Pow2(-p) < b THEN FloorLog2Down(a, b, p - 1) ELSE p

FloorLog2(a, b) == IF a >= b THEN FloorLog2Up(a, b, 0) ELSE FloorLog2Down(a, b, -1)

\* m with 2^m < n <= 2^(m+1), for n >= 1: the binade just below n.
RECURSIVE BinadeBelowFrom(_, _)
BinadeBelowFrom(n, m) == IF n > Pow2(m + 1) THEN BinadeBelowFrom(n, m + 1) ELSE m

BinadeBelow(n) == IF n = 1 THEN -1 ELSE BinadeBelowFrom(n, 0)

\* (a * 2^s) mod b by repeated doubling.
RECURSIVE ShiftMod(_, _, _)
ShiftMod(r, s, b) == IF s = 0 THEN r ELSE ShiftMod((2 * r) % b, s - 1, b)

\* int(x * (a / b)) as Python computes it on doubles, for integers x, a, b >= 1:
\* a / b is rounded to 53 bits, the product is rounded again, int() truncates.
\* When x*a/b is not an integer the rounding errors cannot cross an integer;
\* when it is the integer n, the product falls just below n exactly when the
\* quotient was rounded down by more than half a unit in the last place of n.
IntOfProduct(x, a, b) ==
    IF (x * a) % b # 0
    THEN (x * a) \div b
    ELSE LET n == (x * a) \div b
             p == FloorLog2(a, b)
             r == ShiftMod(a % b, 52 - p, b)
             e == 1 + p - BinadeBelow(n)
             below == IF e >= 0 THEN x * r * Pow2(e) > b ELSE x * r > b * Pow2(-e)
         IN IF r = 0 \/ 2 * r > b THEN n
            ELSE IF below THEN n - 1 ELSE n

\* ------------------------------------------------------------ Image Fitter
\* max(0.0, min(0.2, float(margin_ratio))), in thousandths          (line 40)
ClampMarginRatio(margin_ratio) == Max2(0, Min2(200, margin_ratio))

\* int(margin_ratio * page_w)                                        (line 41)
MarginPx(margin_ratio, page_w) == (ClampMarginRatio(margin_ratio) * page_w) \div 1000

\* lines 34-37: anything but "landscape" is laid out as portrait
PageSize(orientation) ==
    IF orientation = "landscape" THEN <<A4_H_PX, A4_W_PX>> ELSE <<A4_W_PX, A4_H_PX>>

\* the larger of the two ratios instead of the smaller
ScaleRatioMax(max_w, iw, max_h, ih) ==
    IF max_w * ih <= max_h * iw THEN <<max_h, ih>> ELSE <<max_w, iw>>

\* min(max_w / iw, max_h / ih) as the pair <<numerator, denominator>> (line 49)
ScaleRatio(max_w, iw, max_h, ih) ==
    IF max_w * ih <= max_h * iw THEN <<max_w, iw>> ELSE <<max_h, ih>>

\* max(1, int(dim * scale))                                      (lines 50-51)
TargetDim(dim, scale) == Max2(1, IntOfProduct(dim, scale[1], scale[2]))

\* (page_dim - target_dim) // 2                                  (lines 57-58)
PasteOffset(page_dim, target_dim) == (page_dim - target_dim) \div 2

fit_to_a4_allow_upscale(img, orientation, margin_ratio) ==
    LET page_w == PageSize(orientation)[1]
        page_h == PageSize(orientation)[2]
        margin == MarginPx(margin_ratio, page_w)
        max_w == page_w - 2 * margin
        max_h == page_h - 2 * margin
        iw == img.width
        ih == img.height
    IN IF iw <= 0 \/ ih <= 0
       THEN NoPage
       ELSE LET scale == ScaleRatio(max_w, iw, max_h, ih)
                target_w == TargetDim(iw, scale)
                target_h == TargetDim(ih, scale)
            IN [ok |-> TRUE, page_w |-> page_w, page_h |-> page_h,
                target_w |-> target_w, target_h |-> target_h,
                x |-> PasteOffset(page_w, target_w),
                y |-> PasteOffset(page_h, target_h)]

\* -------------------------------------------------- Orientation Selector
\* a strict comparison with the threshold
AspectAboveThreshold(width, height) == IF height = 0 THEN TRUE ELSE width > height

\* aspect >= threshold with aspect = width / height, or 1.0 when height is 0
AspectAtLeastThreshold(width, height) == IF height = 0 THEN TRUE ELSE width >= height

choose_orientation_auto(img) ==
    IF AspectAtLeastThreshold(img.width, img.height) THEN "landscape" ELSE "portrait"

\* line 182
SelectOrientation(img, orientation) ==
    IF orientation = "auto" THEN choose_orientation_auto(img) ELSE orientation


\* ------------------------------------------------------- request decoding
\* str.strip(), and str.strip().lower(), on the strings the requests carry
Strip(s) ==
    CASE s = "   " -> ""
      [] s = " cats " -> "cats"
      [] s = " Landscape " -> "Landscape"
      [] s = " key " -> "key"
      [] OTHER -> s

Lower(s) ==
    CASE s = "Landscape" -> "landscape"
      [] s = "PORTRAIT" -> "portrait"
      [] OTHER -> s

\* `value or default`: a missing key, null and "" all give the default
OrDefault(value, default) == IF value = Absent \/ value = "" THEN default ELSE value

\* "cjk.pdf" stands for a name with a character outside Latin-1
Latin1Encodable(text) == text # "cjk.pdf"

\* lines 162-166: any field that does not convert raises
FieldsConvert(data) ==
    /\ data.querytext # BadValue
    /\ data.num_images.kind # "bad"
    /\ data.orientation # BadValue
    /\ data.margin_ratio.kind # "bad"
    /\ data.filename # BadValue

ParseFields(data) ==
    [query |-> Strip(OrDefault(data.querytext, "")),
     num_images |-> IF data.num_images.kind = "absent" THEN 6 ELSE data.num_images.n,
     orientation |-> Lower(Strip(OrDefault(data.orientation, "auto"))),
     margin_ratio |-> IF data.margin_ratio.kind = "absent" THEN 30 ELSE data.margin_ratio.n,
     filename |-> Strip(OrDefault(data.filename, "google_images.pdf"))]

\* ---------------------------------------------------------------- SerpAPI
\* max(1, min(20, int(num or 6)))                                   (line 90)
ClampNum(num) == Max2(1, Min2(20, IF num = 0 THEN 6 ELSE num))

\* item.get("original") or item.get("thumbnail")                   (line 108)
ItemUrl(item) == IF item.original # Absent THEN item.original ELSE item.thumbnail

RECURSIVE CollectUrls(_)
CollectUrls(items) ==
    IF items = <<>> THEN <<>>
    ELSE LET u == ItemUrl(Head(items))
         IN (IF u # Absent THEN <<u>> ELSE <<>>) \o CollectUrls(Tail(items))

\* results[:num]                                                   (line 107)
FirstN(items, num) == SubSeq(items, 1, Min2(num, Len(items)))

\* lines 105-111
ExtractUrls(results, num) == CollectUrls(FirstN(results, num))

\* ------------------------------------------------------- response helpers
StatusLine(code) == [kind |-> "status", code |-> code, name |-> "", value |-> ""]
Header(name, value) == [kind |-> "header", code |-> 0, name |-> name, value |-> value]
EndOfHeaders == [kind |-> "end", code |-> 0, name |-> "", value |-> ""]
Body(type, value) == [kind |-> "body", code |-> 0, name |-> type, value |-> value]

\* send_response / send_header buffer their line; end_headers sends the buffer;
\* wfile.write sends at once.  out is [buffer, wire].
SendBuffered(out, line) == [buffer |-> Append(out.buffer, line), wire |-> out.wire]
EndHeaders(out) == [buffer |-> <<>>, wire |-> out.wire \o Append(out.buffer, EndOfHeaders)]
WriteBody(out, body) == [buffer |-> out.buffer, wire |-> Append(out.wire, body)]

\* lines 114-121
write_json(out, error, code) ==
    LET o1 == SendBuffered(out, StatusLine(code))
        o2 == SendBuffered(o1, Header("Content-Type", "application/json; charset=utf-8"))
        o3 == SendBuffered(o2, Header("Content-Length", "len(body)"))
        o4 == SendBuffered(o3, Header("Access-Control-Allow-Origin", "*"))
    IN WriteBody(EndHeaders(o4), Body("json", error))

\* line 195: the handler of every exception raised inside do_POST
InternalError(out) == write_json(out, "Internal error", 500)

\* lines 123-130; send_header encodes its line as Latin-1 and raises when it
\* cannot, leaving the lines buffered so far in the buffer
write_pdf(out, filename) ==
    LET o1 == SendBuffered(out, StatusLine(200))
        o2 == SendBuffered(o1, Header("Content-Type", "application/pdf"))
    IN IF ~Latin1Encodable(filename)
       THEN InternalError(o2)
       ELSE LET o3 == SendBuffered(o2, Header("Content-Disposition", filename))
                o4 == SendBuffered(o3, Header("Content-Length", "len(pdf_bytes)"))
                o5 == SendBuffered(o4, Header("Access-Control-Allow-Origin", "*"))
            IN WriteBody(EndHeaders(o5), Body("pdf", "pdf_bytes"))

\* the emptiness test of line 188 left out
NoPagesNeverChecked(pages) == FALSE

\* line 188
NoPagesProduced(pages) == pages = <<>>


\* lines 73-78: raises on no pages, else encodes them in order
make_pdf_bytes(pages) == [raised |-> pages = <<>>, pages |-> pages]

\* ------------------------------------------------------------------ state
VARIABLES
    pc,            \* position in do_POST
    env,           \* os.environ.get("SERPAPI_KEY"), Absent when unset
    body,          \* the request body
    req,           \* the decoded fields (lines 162-166)
    searched,      \* what the search call did: "no", "raised" or "returned"
    results,       \* images_results of the search response
    urls,          \* line 174
    i,             \* index of the next url of the loop of line 179
    outcomes,      \* what download_image did for each url so far
    pages,         \* line 178
    skipped,       \* urls logged by line 186
    netCalls,      \* outbound requests made, in order
    encoderCalls,  \* arguments make_pdf_bytes was called with
    conn,          \* [buffer, wire]: header lines buffered, and what was sent
    fitPc, fitImg, fitMode, fitMargin, fitOrient, fitPage

pipeVars == <<pc, env, body, req, searched, results, urls, i, outcomes, pages,
              skipped, netCalls, encoderCalls, conn>>
fitVars == <<fitPc, fitImg, fitMode, fitMargin, fitOrient, fitPage>>
vars == <<pipeVars, fitVars>>

NoReq == [query |-> "", num_images |-> 0, orientation |-> "", margin_ratio |-> 0,
          filename |-> ""]
EmptyObject == [kind |-> "object", querytext |-> Absent, num_images |-> Missing,
                orientation |-> Absent, margin_ratio |-> Missing, filename |-> Absent]

\* ----------------------------------------------------------------- inputs
QueryInputs == {Absent, "", "   ", " cats ", BadValue}
NumInputs == {Missing, Unconvertible} \cup {Number(n) : n \in {-3, 0, 2, 25}}
OrientationInputs == {Absent, "PORTRAIT", " Landscape "}
MarginInputs == {Missing, Unconvertible, Number(250)}
FilenameInputs == {Absent, "cjk.pdf"}
KeyInputs == {Absent, "   ", " key "}

Bodies ==
    {[EmptyObject EXCEPT !.kind = "invalid"], [EmptyObject EXCEPT !.kind = "nonobject"]}
    \cup [kind : {"object"}, querytext : QueryInputs, num_images : NumInputs,
          orientation : OrientationInputs, margin_ratio : MarginInputs,
          filename : FilenameInputs]

\* what the search API can answer: up to MaxUrls items, item k carrying both
\* urls, only a thumbnail, or none
ItemKinds == {"both", "thumbnail", "none"}
UrlName(k, field) ==
    CASE k = 1 -> (IF field = "original" THEN "o1" ELSE "t1")
      [] k = 2 -> (IF field = "original" THEN "o2" ELSE "t2")
      [] k = 3 -> (IF field = "original" THEN "o3" ELSE "t3")
      [] k = 4 -> (IF field = "original" THEN "o4" ELSE "t4")
      [] OTHER -> (IF field = "original" THEN "o5" ELSE "t5")
Item(k, kind) ==
    [original |-> IF kind = "both" THEN UrlName(k, "original") ELSE Absent,
     thumbnail |-> IF kind = "none" THEN Absent ELSE UrlName(k, "thumbnail")]
SearchAnswers ==
    UNION {{[k \in 1..n |-> Item(k, f[k])] : f \in [1..n -> ItemKinds]} : n \in 0..MaxUrls}

\* what download_image can give for a url: a failure or a decoded image
FetchFailure == [ok |-> FALSE, width |-> 0, height |-> 0]
Image(w, h) == [ok |-> TRUE, width |-> w, height |-> h]
FetchOutcomes == {FetchFailure, Image(2, 1), Image(1, 2), Image(1, 0)}

FitIdle ==
    /\ fitPc = "idle" /\ fitImg = Image(0, 0) /\ fitMode = "" /\ fitMargin = 0
    /\ fitOrient = "" /\ fitPage = NoPage

Init ==
    /\ pc = "start"
    /\ env \in KeyInputs
    /\ body \in Bodies
    /\ req = NoReq
    /\ searched = "no"
    /\ results = <<>>
    /\ urls = <<>>
    /\ i = 1
    /\ outcomes = <<>>
    /\ pages = <<>>
    /\ skipped = <<>>
    /\ netCalls = <<>>
    /\ encoderCalls = <<>>
    /\ conn = [buffer |-> <<>>, wire |-> <<>>]
    /\ FitIdle


\* ------------------------------------------------------------ do_POST steps
\* os.environ.get("SERPAPI_KEY", "").strip()                       (line 168)
SerpKey(value) == Strip(IF value = Absent THEN "" ELSE value)

SearchCall(query, num) == [op |-> "search", q |-> query, num |-> num, url |-> ""]
FetchCall(u) == [op |-> "fetch", q |-> "", num |-> 0, url |-> u]

SearchOutcomes ==
    {[raised |-> TRUE, items |-> <<>>]}
    \cup {[raised |-> FALSE, items |-> a] : a \in SearchAnswers}

\* pages.insert(0, page) instead of pages.append(page)
AddPageFront(ps, page) == <<page>> \o ps

\* line 184
AddPage(ps, page) == Append(ps, page)

\* the for loop of line 179 goes on to the next url, page or no page
NextIndex(k, produced) == k + 1

\* lines 153-166
ParseRequest ==
    /\ pc = "start"
    /\ IF body.kind = "invalid"
       THEN /\ conn' = write_json(conn, "Invalid JSON body", 400)
            /\ pc' = "done"
            /\ req' = req
       ELSE IF body.kind = "nonobject" \/ ~FieldsConvert(body)
       THEN /\ conn' = InternalError(conn)
            /\ pc' = "done"
            /\ req' = req
       ELSE /\ req' = ParseFields(body)
            /\ pc' = "config"
            /\ conn' = conn
    /\ UNCHANGED <<env, body, searched, results, urls, i, outcomes, pages, skipped,
                   netCalls, encoderCalls, fitVars>>

\* lines 168-172
CheckConfig ==
    /\ pc = "config"
    /\ IF SerpKey(env) = ""
       THEN /\ conn' = write_json(conn, "Missing SERPAPI_KEY env var", 500)
            /\ pc' = "done"
       ELSE IF req.query = ""
       THEN /\ conn' = write_json(conn, "querytext is required", 400)
            /\ pc' = "done"
       ELSE /\ conn' = conn
            /\ pc' = "search"
    /\ UNCHANGED <<env, body, req, searched, results, urls, i, outcomes, pages, skipped,
                   netCalls, encoderCalls, fitVars>>

\* lines 174-178, with google_images_serpapi (lines 86-111)
Search ==
    /\ pc = "search"
    /\ \E answer \in SearchOutcomes :
         LET num == ClampNum(req.num_images)
             found == ExtractUrls(answer.items, num)
         IN /\ netCalls' = Append(netCalls, SearchCall(req.query, num))
            /\ IF answer.raised
               THEN /\ searched' = "raised"
                    /\ results' = results
                    /\ urls' = urls
                    /\ conn' = InternalError(conn)
                    /\ pc' = "done"
               ELSE /\ searched' = "returned"
                    /\ results' = answer.items
                    /\ urls' = found
                    /\ IF found = <<>>
                       THEN /\ conn' = write_json(conn, "No image URLs returned", 502)
                            /\ pc' = "done"
                       ELSE /\ conn' = conn
                            /\ pc' = "loop"
    /\ UNCHANGED <<env, body, req, i, outcomes, pages, skipped, encoderCalls, fitVars>>

\* lines 179-186, one url
FetchStep ==
    /\ pc = "loop"
    /\ i <= Len(urls)
    /\ \E o \in FetchOutcomes :
         LET u == urls[i]
             orient == SelectOrientation(o, req.orientation)
             page == fit_to_a4_allow_upscale(o, orient, req.margin_ratio)
             produced == o.ok /\ page.ok
         IN /\ netCalls' = Append(netCalls, FetchCall(u))
            /\ outcomes' = Append(outcomes, o)
            /\ IF produced
               THEN /\ pages' = AddPage(pages, [url |-> u, orient |-> orient, page |-> page])
                    /\ skipped' = skipped
               ELSE /\ pages' = pages
                    /\ skipped' = Append(skipped, u)
            /\ i' = NextIndex(i, produced)
    /\ UNCHANGED <<pc, env, body, req, searched, results, urls, encoderCalls, conn, fitVars>>

\* lines 188-191
Collate ==
    /\ pc = "loop"
    /\ i > Len(urls)
    /\ IF NoPagesProduced(pages)
       THEN /\ conn' = write_json(conn, "No pages created", 502)
            /\ pc' = "done"
            /\ encoderCalls' = encoderCalls
       ELSE /\ encoderCalls' = Append(encoderCalls, pages)
            /\ IF make_pdf_bytes(pages).raised
               THEN /\ conn' = InternalError(conn)
                    /\ pc' = "done"
               ELSE /\ conn' = conn
                    /\ pc' = "respond"
    /\ UNCHANGED <<env, body, req, searched, results, urls, i, outcomes, pages, skipped,
                   netCalls, fitVars>>

\* line 192, and line 195 when _write_pdf raises
Respond ==
    /\ pc = "respond"
    /\ conn' = write_pdf(conn, req.filename)
    /\ pc' = "done"
    /\ UNCHANGED <<env, body, req, searched, results, urls, i, outcomes, pages, skipped,
                   netCalls, encoderCalls, fitVars>>

Next == ParseRequest \/ CheckConfig \/ Search \/ FetchStep \/ Collate \/ Respond

Spec == Init /\ [][Next]_vars

\* ------------------------------------- the layout functions on their own
FitDims == (0..MaxDim) \cup {49, 777, 1000, 2481, 3507, 4999}
FitModes == {"auto", "portrait", "landscape", "sideways"}
FitMargins == {-50, 0, 30, 200, 250}

InitFit ==
    /\ pc = "idle"
    /\ env = Absent
    /\ body = EmptyObject
    /\ req = NoReq
    /\ searched = "no"
    /\ results = <<>>
    /\ urls = <<>>
    /\ i = 1
    /\ outcomes = <<>>
    /\ pages = <<>>
    /\ skipped = <<>>
    /\ netCalls = <<>>
    /\ encoderCalls = <<>>
    /\ conn = [buffer |-> <<>>, wire |-> <<>>]
    /\ fitPc = "input"
    /\ fitImg \in {Image(w, h) : w \in FitDims, h \in FitDims}
    /\ fitMode \in FitModes
    /\ fitMargin \in FitMargins
    /\ fitOrient = ""
    /\ fitPage = NoPage

\* line 182 on the drawn image and mode
Orient ==
    /\ fitPc = "input"
    /\ fitOrient' = SelectOrientation(fitImg, fitMode)
    /\ fitPc' = "oriented"
    /\ UNCHANGED <<pipeVars, fitImg, fitMode, fitMargin, fitPage>>

\* line 183 on the drawn image and margin ratio
Fit ==
    /\ fitPc = "oriented"
    /\ fitPage' = fit_to_a4_allow_upscale(fitImg, fitOrient, fitMargin)
    /\ fitPc' = "fitted"
    /\ UNCHANGED <<pipeVars, fitImg, fitMode, fitMargin, fitOrient>>

NextFit == Orient \/ Fit

SpecFit == InitFit /\ [][NextFit]_vars


\* ================================================================= claims
IsStatus(line) == line.kind = "status"
IsSearchCall(call) == call.op = "search"
IsFetchCall(call) == call.op = "fetch"

\* the status codes sent or buffered, in order
StatusCodes ==
    LET lines == SelectSeq(conn.wire \o conn.buffer, IsStatus)
    IN [k \in 1..Len(lines) |-> lines[k].code]

FetchedUrls ==
    LET calls == SelectSeq(netCalls, IsFetchCall)
    IN [k \in 1..Len(calls) |-> calls[k].url]

PageUrls(ps) == [k \in 1..Len(ps) |-> ps[k].url]

\* a url succeeded when its download gave an image the fitter accepts
Succeeded(o) == o.ok /\ o.width >= 1 /\ o.height >= 1

RECURSIVE SuccessfulUrlsFrom(_)
SuccessfulUrlsFrom(k) ==
    IF k > Len(outcomes) THEN <<>>
    ELSE (IF Succeeded(outcomes[k]) THEN <<urls[k]>> ELSE <<>>) \o SuccessfulUrlsFrom(k + 1)

SuccessfulUrls == SuccessfulUrlsFrom(1)

\* C1: the pages handed to the encoder are one per successful url, none for a
\* failed url, in the order of the urls, and every url was fetched whatever
\* happened to the urls before it.
PagesFollowSuccessfulUrls ==
    /\ PageUrls(pages) = SuccessfulUrls
    /\ \A k \in 1..Len(encoderCalls) :
         /\ PageUrls(encoderCalls[k]) = SuccessfulUrls
         /\ Len(outcomes) = Len(urls)
    /\ (pc \in {"respond", "done"} /\ urls # <<>>) => FetchedUrls = urls

PagesFollowSuccessfulUrlsWitness ==
    /\ Len(encoderCalls) = 1
    /\ Len(urls) = 3
    /\ outcomes[1].ok /\ ~outcomes[2].ok /\ outcomes[3].ok
    /\ PageUrls(encoderCalls[1]) = <<urls[1], urls[3]>>

\* C2: a POST whose querytext is missing, empty or blank is answered 400 and
\* makes no outbound call, whatever the other fields and the credential are.
MissingQueryGives400 ==
    (pc = "done" /\ body.kind = "object" /\ body.querytext \in {Absent, "", "   "})
        => (StatusCodes = <<400>> /\ netCalls = <<>>)

\* C3: a search call that fails is answered 502.
SearchFailureGives502 ==
    (pc = "done" /\ searched = "raised") => StatusCodes = <<502>>

AllUrlsFailed ==
    /\ urls # <<>>
    /\ Len(outcomes) = Len(urls)
    /\ \A k \in 1..Len(outcomes) : ~Succeeded(outcomes[k])

\* C4: when every url of a non-empty search result fails, the answer is 502,
\* and the encoder is never called with no pages.
AllFailedGives502 ==
    /\ (pc = "done" /\ AllUrlsFailed) => StatusCodes = <<502>>
    /\ \A k \in 1..Len(encoderCalls) : encoderCalls[k] # <<>>

AllFailedGives502Witness ==
    /\ pc = "done"
    /\ AllUrlsFailed
    /\ Len(urls) >= 2
    /\ \E k \in 1..Len(outcomes) : ~outcomes[k].ok
    /\ \E k \in 1..Len(outcomes) : outcomes[k].ok
    /\ StatusCodes = <<502>>

\* C5: the count sent to the search API and used to cut the result list is
\* num_images clamped to [1,20], and 6 when the field is absent.
ClaimedCount ==
    IF body.num_images.kind = "absent" THEN 6
    ELSE IF body.num_images.n < 1 THEN 1
    ELSE IF body.num_images.n > 20 THEN 20
    ELSE body.num_images.n

SearchCountIsClamped ==
    /\ \A k \in 1..Len(netCalls) : IsSearchCall(netCalls[k]) => netCalls[k].num = ClaimedCount
    /\ searched = "returned" => urls = CollectUrls(SubSeq(results, 1, Min2(ClaimedCount, Len(results))))

PdfOnWire ==
    \E k \in 1..Len(conn.wire) :
        \/ conn.wire[k].kind = "status" /\ conn.wire[k].code = 200
        \/ conn.wire[k].kind = "header" /\ conn.wire[k].value = "application/pdf"
        \/ conn.wire[k].kind = "body" /\ conn.wire[k].name = "pdf"

JsonErrorOnWire ==
    \E k \in 1..Len(conn.wire) : conn.wire[k].kind = "body" /\ conn.wire[k].name = "json"

\* C6: nothing is written while the search or the loop is in progress; the
\* PDF response is written only after every url was processed, a page was
\* produced and the document encoded; an aborted request writes a JSON error
\* and nothing of a PDF response.
NoPartialResponse ==
    /\ pc \in {"start", "config", "search", "loop", "respond"} => conn = [buffer |-> <<>>, wire |-> <<>>]
    /\ PdfOnWire => (Len(outcomes) = Len(urls) /\ pages # <<>> /\ encoderCalls = <<pages>>)
    /\ JsonErrorOnWire => ~PdfOnWire

\* C7: the resized image is at least 1x1, fits the content area left by the
\* clamped margin, and is pasted entirely inside the page.
FittedImageInsideContentArea ==
    (fitPc = "fitted" /\ fitImg.width >= 1 /\ fitImg.height >= 1) =>
        LET page_w == IF fitOrient = "landscape" THEN 3507 ELSE 2481
            page_h == IF fitOrient = "landscape" THEN 2481 ELSE 3507
            ratio == IF fitMargin < 0 THEN 0 ELSE IF fitMargin > 200 THEN 200 ELSE fitMargin
            margin == (ratio * page_w) \div 1000
            Cw == page_w - 2 * margin
            Ch == page_h - 2 * margin
        IN /\ fitPage.ok
           /\ 1 <= fitPage.target_w /\ fitPage.target_w <= Cw
           /\ 1 <= fitPage.target_h /\ fitPage.target_h <= Ch
           /\ 0 <= fitPage.x /\ fitPage.x + fitPage.target_w <= page_w
           /\ 0 <= fitPage.y /\ fitPage.y + fitPage.target_h <= page_h

FittedImageInsideContentAreaWitness ==
    /\ fitPc = "fitted"
    /\ fitPage.ok
    /\ fitMargin = 250
    /\ fitOrient = "landscape"
    /\ fitImg.width < 2105
    /\ fitPage.target_w = 2105
    /\ fitPage.target_h < 1079

\* C8: in auto mode the page is landscape when width >= height (a square or
\* zero-height image included) and portrait otherwise; an explicit portrait or
\* landscape mode is the page orientation whatever the image is.
OrientationFollowsMode ==
    (fitPc \in {"oriented", "fitted"} /\ fitMode \in {"auto", "portrait", "landscape"}) =>
        /\ fitMode = "auto" =>
              fitOrient = (IF fitImg.width >= fitImg.height THEN "landscape" ELSE "portrait")
        /\ fitMode # "auto" => fitOrient = fitMode
        /\ (fitPc = "fitted" /\ fitPage.ok) =>
              <<fitPage.page_w, fitPage.page_h>> =
                  (IF fitOrient = "landscape" THEN <<3507, 2481>> ELSE <<2481, 3507>>)

OrientationFollowsModeWitness ==
    /\ fitPc = "fitted"
    /\ fitMode = "auto"
    /\ fitImg.width = fitImg.height
    /\ fitImg.width >= 1
    /\ fitOrient = "landscape"
    /\ fitPage.page_w = 3507

\* x * a / b rounded to the nearest integer
RoundedProduct(x, a, b) == (2 * x * a + b) \div (2 * b)

\* C9: the target dimensions are the scaled dimensions rounded to the nearest
\* integer, with a floor of 1.
TargetIsRounded ==
    (fitPc = "fitted" /\ fitPage.ok) =>
        LET page_w == IF fitOrient = "landscape" THEN 3507 ELSE 2481
            page_h == IF fitOrient = "landscape" THEN 2481 ELSE 3507
            ratio == IF fitMargin < 0 THEN 0 ELSE IF fitMargin > 200 THEN 200 ELSE fitMargin
            margin == (ratio * page_w) \div 1000
            Cw == page_w - 2 * margin
            Ch == page_h - 2 * margin
            byWidth == Cw * fitImg.height <= Ch * fitImg.width
            a == IF byWidth THEN Cw ELSE Ch
            b == IF byWidth THEN fitImg.width ELSE fitImg.height
        IN /\ fitPage.target_w = Max2(1, RoundedProduct(fitImg.width, a, b))
           /\ fitPage.target_h = Max2(1, RoundedProduct(fitImg.height, a, b))

\* C10: a finished POST has started exactly one response, with status 200,
\* 400, 500 or 502.
ExactlyOneResponse ==
    pc = "done" => (Len(StatusCodes) = 1 /\ StatusCodes[1] \in {200, 400, 500, 502})

====
